---- MODULE Spec2Model ----
(***************************************************************************)
(* WBChat real-time chat core: chat/consumers.py (ChatConsumer) and the    *)
(* rows of chat/models.py it reads and writes.                             *)
(*                                                                         *)
(* Seven specifications share the definitions below:                       *)
(*   SpecPresence  concurrent update_online_status / update_activity calls *)
(*                 on one user's OnlineStatus row, each call a read of the *)
(*                 row followed by a save of the fields it names;          *)
(*   SpecStatus    MessageStatus rows under mark_delivered, mark_read      *)
(*                 and the consumer's bulk mark_messages_as_read;          *)
(*   Spec          ChatConsumer sessions: connect, disconnect, the         *)
(*                 chat_message, typing and read_receipt frames and the    *)
(*                 channel-layer fan-out between sessions;                 *)
(*   SpecCommands  the same sessions with every frame receive() can get:   *)
(*                 edit_message, delete_message, reaction, unknown types   *)
(*                 and text that is not a JSON object;                     *)
(*   SpecMembers   sessions that send messages while the admin site edits  *)
(*                 their membership rows;                                  *)
(*   SpecMessages  sessions that edit and delete the messages of the       *)
(*                 store, with the clock running;                          *)
(*   SpecExpiry    TypingIndicator.is_expired on rows of any age, the      *)
(*                 clock counting seconds.                                 *)
(***************************************************************************)
EXTENDS Integers, Sequences, FiniteSets, TLC

\* ---------------------------------------------------------------- bounds
NumUsers == 3
NumConvs == 2
MaxCalls == 3
MaxTime == 2
MaxMessages == 2
NumWorkers == 1
NumSessions == 2
MaxCommands == 2
MaxDays == 1
MaxSecondOfDay == 10

\* A DateTimeField holding no value (null=True); the clock starts at 1.
NULL == 0

Users == 1..NumUsers
Convs == 1..NumConvs
Calls == 1..MaxCalls
Time == 1..MaxTime
MessageIds == 1..MaxMessages
Workers == 1..NumWorkers
Sessions == 1..NumSessions

Max(a, b) == IF a >= b THEN a ELSE b

VARIABLES
    now,            \* timezone.now()
    online_status,  \* OnlineStatus rows, one per user
    call_pc,        \* position of each update_online_status / update_activity call
    call_kind,      \* "online", "offline" or "activity"
    call_copy,      \* the OnlineStatus instance the call holds in memory
    membership,     \* UserConversation rows: "none", "active" (left_at null), "left"
    last_read_at,   \* UserConversation.last_read_at
    messages,       \* Message rows; the id of a row is its index
    statuses,       \* MessageStatus rows, keyed by <<message id, user>>
    typing,         \* TypingIndicator rows: started_at, NULL when there is no row
    st_copy,        \* MessageStatus instances held in memory outside the consumer
    pc,             \* each session's consumer: where its life cycle stands
    sess_user,      \* self.user (scope['user']); Anonymous when not logged in
    sess_conv,      \* self.conversation_id
    accepted,       \* whether self.accept() completed the handshake
    hpc,            \* position inside handle_chat_message
    cur_msg,        \* handle_chat_message's local variable message (an id)
    groups,         \* channel layer: the channels of group chat_<conversation>
    chan,           \* channel layer: events queued for each session's channel
    sent,           \* frames each consumer wrote to its WebSocket (self.send)
    closes,         \* how many times disconnect ran to its end for the session
    commands,       \* inbound frames handled so far (bounded by MaxCommands)
    reactions,      \* Reaction rows: <<message id, user, emoji>>
    can_send,       \* UserConversation.can_send_messages
    last_cmd,       \* the inbound frame that receive() handled last
    published       \* the events handed to group_send, per conversation, in order

clockVars == <<now>>
presenceVars == <<online_status>>
callVars == <<call_pc, call_kind, call_copy>>
storeVars == <<membership, last_read_at, messages, statuses, typing>>
workerVars == <<st_copy>>
sessVars == <<pc, sess_user, sess_conv, accepted, hpc, cur_msg, closes, commands>>
layerVars == <<groups, chan, sent>>
auxVars == <<reactions, can_send, last_cmd, published>>
vars == <<now, online_status, call_pc, call_kind, call_copy, membership,
          last_read_at, messages, statuses, typing, st_copy, pc, sess_user,
          sess_conv, accepted, hpc, cur_msg, groups, chan, sent, closes, commands,
          reactions, can_send, last_cmd, published>>

\* ------------------------------------------------------ OnlineStatus rows
\* The field defaults of the model; last_activity_at = NULL stands for "no row
\* yet" (auto_now gives every stored row a value).
OnlineStatusDefault ==
    [is_online |-> FALSE, connection_count |-> 0, last_seen_at |-> NULL,
     last_activity_at |-> NULL, current_conversation |-> NULL]

\* OnlineStatus.objects.get_or_create(user=...): the row as stored afterwards.
get_or_create(row) ==
    IF row.last_activity_at = NULL
    THEN [row EXCEPT !.last_activity_at = now]
    ELSE row

\* OnlineStatus.go_online on the in-memory instance.
go_online(self) ==
    [self EXCEPT !.is_online = TRUE,
                 !.connection_count = @ + 1,
                 !.last_activity_at = now]

\* save(update_fields=['is_online', 'connection_count', 'last_activity_at'])
save_online(row, self) ==
    [row EXCEPT !.is_online = self.is_online,
                !.connection_count = self.connection_count,
                !.last_activity_at = self.last_activity_at]

\* A go_offline that forgets to clear is_online when the count reaches zero.
go_offline_keeps_flag(self) ==
    LET cc == Max(0, self.connection_count - 1)
    IN  [self EXCEPT !.connection_count = cc,
                     !.last_seen_at = IF cc = 0 THEN now ELSE @,
                     !.last_activity_at = now]

\* OnlineStatus.go_offline on the in-memory instance.
go_offline(self) ==
    LET cc == Max(0, self.connection_count - 1)
    IN  [self EXCEPT !.connection_count = cc,
                     !.is_online = IF cc = 0 THEN FALSE ELSE @,
                     !.last_seen_at = IF cc = 0 THEN now ELSE @,
                     !.last_activity_at = now]

\* save(update_fields=['is_online', 'connection_count', 'last_seen_at',
\*                     'last_activity_at'])
save_offline(row, self) ==
    [row EXCEPT !.is_online = self.is_online,
                !.connection_count = self.connection_count,
                !.last_seen_at = self.last_seen_at,
                !.last_activity_at = self.last_activity_at]

\* OnlineStatus.update_activity(conversation) on the in-memory instance.
update_activity(self, conversation) ==
    [self EXCEPT !.last_activity_at = now,
                 !.current_conversation =
                     IF conversation # NULL THEN conversation ELSE @]

\* save(update_fields=['last_activity_at', 'current_conversation'])
save_activity(row, self) ==
    [row EXCEPT !.last_activity_at = self.last_activity_at,
                !.current_conversation = self.current_conversation]

\* ------------------------------------------------- UserConversation rows
\* The memberships the consumer finds in the database (it creates none):
\* conversation 1 has users 1 and 2 active and user 3 gone (left_at set);
\* every further conversation c has users 1 and c + 1 active.
InitialMembership(u, c) ==
    IF c = 1
    THEN (IF u <= 2 THEN "active" ELSE IF u = 3 THEN "left" ELSE "none")
    ELSE (IF u = 1 \/ u = c + 1 THEN "active" ELSE "none")

\* A membership check that forgets left_at__isnull=True.
check_conversation_membership_any_row(u, c) ==
    u \in Users /\ membership[u, c] # "none"

\* ChatConsumer.check_conversation_membership
check_conversation_membership(u, c) ==
    u \in Users /\ membership[u, c] = "active"

\* ---------------------------------------------------- MessageStatus rows
StatusAbsent == [status |-> "none", delivered_at |-> NULL, read_at |-> NULL]
StatusSent == [status |-> "sent", delivered_at |-> NULL, read_at |-> NULL]

\* The order of STATUS_CHOICES: sent, delivered, read.
Rank(status) ==
    CASE status = "none" -> 0
      [] status = "sent" -> 1
      [] status = "delivered" -> 2
      [] status = "read" -> 3

\* A create_message_statuses that forgets .exclude(user=self.user).
create_message_statuses_with_author(sts, m, c, author) ==
    [key \in DOMAIN sts |->
        IF key[1] = m /\ membership[key[2], c] = "active"
        THEN StatusSent
        ELSE sts[key]]

\* ChatConsumer.create_message_statuses: one 'sent' row per participant with
\* left_at null, the author excluded.
create_message_statuses(sts, m, c, author) ==
    [key \in DOMAIN sts |->
        IF key[1] = m /\ membership[key[2], c] = "active" /\ key[2] # author
        THEN StatusSent
        ELSE sts[key]]

\* ChatConsumer.mark_messages_as_read, first statement: every row of the user
\* whose message id is in message_ids, whatever its status and whatever the
\* conversation of its message.
mark_messages_as_read(sts, user, message_ids) ==
    [key \in DOMAIN sts |->
        IF key[1] \in message_ids /\ key[2] = user /\ sts[key].status # "none"
        THEN [sts[key] EXCEPT !.status = "read", !.read_at = now]
        ELSE sts[key]]

\* ChatConsumer.mark_messages_as_read, second statement: last_read_at of the
\* user's row for the session's conversation (left or not).
update_last_read_at(lra, user, c) ==
    [key \in DOMAIN lra |->
        IF key = <<user, c>> /\ membership[user, c] # "none"
        THEN now
        ELSE lra[key]]

\* MessageStatus.mark_delivered on the in-memory instance.
mark_delivered(self) ==
    IF self.status = "sent"
    THEN [self EXCEPT !.status = "delivered", !.delivered_at = now]
    ELSE self

\* MessageStatus.mark_read on the in-memory instance.
mark_read(self) ==
    IF self.status # "read"
    THEN [self EXCEPT !.status = "read", !.read_at = now]
    ELSE self

\* ------------------------------------------------------------------ clock
Tick ==
    /\ now < MaxTime
    /\ now' = now + 1
    /\ UNCHANGED <<presenceVars, callVars, storeVars, workerVars, sessVars, layerVars>>
    /\ UNCHANGED auxVars

\* ------------------------------------------- SpecPresence: one user's row
\* The calls of SpecPresence all concern this user.
PresenceUser == 1

CallKinds == {"online", "offline", "activity"}

\* ChatConsumer.update_online_status, first statement: get_or_create reads
\* (and, the first time, inserts) the row.  Nothing locks the row between this
\* read and the save below (no select_for_update, no F() expression), so the
\* calls of other sessions may read and save in between.
PresenceGet(k, kind) ==
    /\ call_pc[k] = "idle"
    /\ LET row == get_or_create(online_status[PresenceUser])
       IN  /\ online_status' = [online_status EXCEPT ![PresenceUser] = row]
           /\ call_copy' = [call_copy EXCEPT ![k] = row]
    /\ call_kind' = [call_kind EXCEPT ![k] = kind]
    /\ call_pc' = [call_pc EXCEPT ![k] = "loaded"]
    /\ UNCHANGED <<clockVars, storeVars, workerVars, sessVars, layerVars>>
    /\ UNCHANGED auxVars

\* update_online_status(online=True): status.go_online().  The statement after
\* it, status.update_activity(conversation_id=...), names a parameter that
\* update_activity(self, conversation=None) does not have and raises TypeError
\* before it touches the instance.
PresenceSaveOnline(k) ==
    /\ call_pc[k] = "loaded" /\ call_kind[k] = "online"
    /\ LET self == go_online(call_copy[k])
       IN  /\ online_status' = [online_status EXCEPT
                  ![PresenceUser] = save_online(@, self)]
           /\ call_copy' = [call_copy EXCEPT ![k] = self]
    /\ call_pc' = [call_pc EXCEPT ![k] = "done"]
    /\ UNCHANGED <<clockVars, call_kind, storeVars, workerVars, sessVars, layerVars>>
    /\ UNCHANGED auxVars

\* update_online_status(online=False): status.go_offline().
PresenceSaveOffline(k) ==
    /\ call_pc[k] = "loaded" /\ call_kind[k] = "offline"
    /\ LET self == go_offline(call_copy[k])
       IN  /\ online_status' = [online_status EXCEPT
                  ![PresenceUser] = save_offline(@, self)]
           /\ call_copy' = [call_copy EXCEPT ![k] = self]
    /\ call_pc' = [call_pc EXCEPT ![k] = "done"]
    /\ UNCHANGED <<clockVars, call_kind, storeVars, workerVars, sessVars, layerVars>>
    /\ UNCHANGED auxVars

\* A direct OnlineStatus.update_activity(conversation) on a loaded instance.
PresenceSaveActivity(k, conversation) ==
    /\ call_pc[k] = "loaded" /\ call_kind[k] = "activity"
    /\ LET self == update_activity(call_copy[k], conversation)
       IN  /\ online_status' = [online_status EXCEPT
                  ![PresenceUser] = save_activity(@, self)]
           /\ call_copy' = [call_copy EXCEPT ![k] = self]
    /\ call_pc' = [call_pc EXCEPT ![k] = "done"]
    /\ UNCHANGED <<clockVars, call_kind, storeVars, workerVars, sessVars, layerVars>>
    /\ UNCHANGED auxVars

\* ------------------------------- SpecStatus: MessageStatus rows and copies
NoCopy == [key |-> <<NULL, NULL>>, row |-> StatusAbsent]

\* MessageStatus.objects.get(message=m, user=u): an instance in memory.
StatusLoad(w, m, u) ==
    /\ statuses[<<m, u>>].status # "none"
    /\ st_copy' = [st_copy EXCEPT ![w] = [key |-> <<m, u>>, row |-> statuses[<<m, u>>]]]
    /\ UNCHANGED <<clockVars, presenceVars, callVars, storeVars, sessVars, layerVars>>
    /\ UNCHANGED auxVars

\* instance.mark_delivered(): the test reads the instance, and
\* save(update_fields=['status', 'delivered_at']) writes both columns.
StatusMarkDelivered(w) ==
    /\ st_copy[w].key # <<NULL, NULL>>
    /\ LET self == st_copy[w].row
           new == mark_delivered(self)
       IN  /\ st_copy' = [st_copy EXCEPT ![w].row = new]
           /\ statuses' =
                IF self.status = "sent"
                THEN [statuses EXCEPT ![st_copy[w].key] =
                        [@ EXCEPT !.status = new.status,
                                  !.delivered_at = new.delivered_at]]
                ELSE statuses
    /\ UNCHANGED <<clockVars, presenceVars, callVars, membership, last_read_at,
                   messages, typing, sessVars, layerVars>>
    /\ UNCHANGED auxVars

\* instance.mark_read(): save(update_fields=['status', 'read_at']).
StatusMarkRead(w) ==
    /\ st_copy[w].key # <<NULL, NULL>>
    /\ LET self == st_copy[w].row
           new == mark_read(self)
       IN  /\ st_copy' = [st_copy EXCEPT ![w].row = new]
           /\ statuses' =
                IF self.status # "read"
                THEN [statuses EXCEPT ![st_copy[w].key] =
                        [@ EXCEPT !.status = new.status,
                                  !.read_at = new.read_at]]
                ELSE statuses
    /\ UNCHANGED <<clockVars, presenceVars, callVars, membership, last_read_at,
                   messages, typing, sessVars, layerVars>>
    /\ UNCHANGED auxVars

\* ChatConsumer.mark_messages_as_read for a session of user in conversation c.
MarkRead(user, c, message_ids) ==
    /\ statuses' = mark_messages_as_read(statuses, user, message_ids)
    /\ last_read_at' = update_last_read_at(last_read_at, user, c)
    /\ UNCHANGED <<clockVars, presenceVars, callVars, workerVars, membership,
                   messages, typing, sessVars, layerVars>>
    /\ UNCHANGED auxVars

\* A read_receipt handled by a session of conversation 1, where the messages
\* of SpecStatus are; such a session belongs to an active member.
StatusReadReceipt(user, message_ids) ==
    /\ check_conversation_membership(user, 1)
    /\ MarkRead(user, 1, message_ids)

\* Message i of the initial rows of SpecStatus: written in conversation 1 by
\* its two active members in turn.
InitialMessage(i) ==
    [conversation |-> 1, author |-> IF i % 2 = 1 THEN 1 ELSE 2, content |-> "hi",
     reply_to |-> NULL, is_edited |-> FALSE, edited_at |-> NULL,
     is_deleted |-> FALSE, deleted_at |-> NULL]

InitStore ==
    /\ membership = [key \in Users \X Convs |-> InitialMembership(key[1], key[2])]
    /\ last_read_at = [key \in Users \X Convs |-> NULL]
    /\ messages = <<>>
    /\ statuses = [key \in MessageIds \X Users |-> StatusAbsent]
    /\ typing = [key \in Users \X Convs |-> NULL]

\* No connection has been made.
InitSessions ==
    /\ pc = [s \in Sessions |-> "new"]
    /\ sess_user = [s \in Sessions |-> NULL]
    /\ sess_conv = [s \in Sessions |-> NULL]
    /\ accepted = [s \in Sessions |-> FALSE]
    /\ hpc = [s \in Sessions |-> "idle"]
    /\ cur_msg = [s \in Sessions |-> NULL]
    /\ closes = [s \in Sessions |-> 0]
    /\ commands = 0
    /\ groups = [c \in Convs |-> {}]
    /\ chan = [s \in Sessions |-> <<>>]
    /\ sent = [s \in Sessions |-> <<>>]

\* What receive() finds in a frame: the session it arrived on, its 'type',
\* the 'message_id' it names (NULL when it names none) and its 'message' /
\* 'content' ("" when it has none).
Cmd(s, type, message_id, content) ==
    [session |-> s, type |-> type, message_id |-> message_id, content |-> content]

NoCmd == Cmd(NULL, "none", NULL, "")

\* No reaction yet; every membership row has the default can_send_messages;
\* no frame received and nothing published.
InitAux ==
    /\ reactions = {}
    /\ can_send = [key \in Users \X Convs |-> TRUE]
    /\ last_cmd = NoCmd
    /\ published = [c \in Convs |-> <<>>]

InitCalls ==
    /\ online_status = [u \in Users |-> OnlineStatusDefault]
    /\ call_pc = [k \in Calls |-> "idle"]
    /\ call_kind = [k \in Calls |-> "none"]
    /\ call_copy = [k \in Calls |-> OnlineStatusDefault]

\* The rows after the MaxMessages messages have been sent and their statuses
\* created: what handle_chat_message leaves in the database.
InitStatus ==
    /\ now = 1
    /\ InitCalls
    /\ membership = [key \in Users \X Convs |-> InitialMembership(key[1], key[2])]
    /\ last_read_at = [key \in Users \X Convs |-> NULL]
    /\ messages = [i \in MessageIds |-> InitialMessage(i)]
    /\ statuses = [key \in MessageIds \X Users |->
          IF membership[key[2], 1] = "active" /\ key[2] # InitialMessage(key[1]).author
          THEN StatusSent ELSE StatusAbsent]
    /\ typing = [key \in Users \X Convs |-> NULL]
    /\ st_copy = [w \in Workers |-> NoCopy]
    /\ InitSessions
    /\ InitAux

NextStatus ==
    \/ Tick
    \/ \E w \in Workers, m \in MessageIds, u \in Users : StatusLoad(w, m, u)
    \/ \E w \in Workers : StatusMarkDelivered(w)
    \/ \E w \in Workers : StatusMarkRead(w)
    \/ \E u \in Users, ids \in SUBSET MessageIds : StatusReadReceipt(u, ids)

SpecStatus == InitStatus /\ [][NextStatus]_vars

InitPresence ==
    /\ now = 1
    /\ InitCalls
    /\ InitStore
    /\ st_copy = [w \in Workers |-> NoCopy]
    /\ InitSessions
    /\ InitAux

NextPresence ==
    \/ Tick
    \/ \E k \in Calls, kind \in CallKinds : PresenceGet(k, kind)
    \/ \E k \in Calls : PresenceSaveOnline(k)
    \/ \E k \in Calls : PresenceSaveOffline(k)
    \/ \E k \in Calls, c \in Convs \cup {NULL} : PresenceSaveActivity(k, c)

SpecPresence == InitPresence /\ [][NextPresence]_vars

\* ------------------------------------------------- Spec: ChatConsumer
\* scope['user'] of a connection without a login: AnonymousUser.
Anonymous == 0

\* The 'message' values a client sends; strip() empties the first two.
Contents == {"", " ", "hi"}
\* A strip() that leaves whitespace where it is.
strip_keeps_whitespace(content) == content

strip(content) == IF content \in {"", " "} THEN "" ELSE content

\* The event dictionaries handed to group_send; arg holds the message ids,
\* or {1} / {} for is_typing true / false.
Event(type, user_id, arg) == [type |-> type, user_id |-> user_id, arg |-> arg]

\* Consumers whose channel is still read: a connect that got as far as
\* accept(), and not yet a disconnect.
Live(s) == pc[s] \in {"raised", "open"}

\* A group_send that puts the event in front of what a channel holds.
group_send_at_front(grp, c, event) ==
    [s \in Sessions |->
        IF s \in grp[c] /\ Live(s) THEN <<event>> \o chan[s] ELSE chan[s]]

\* channel_layer.group_send(room_group_name, event): the event is queued on
\* the channel of every member of the group (grp: the groups at that moment).
\* A channel nobody reads any more just lets the event expire.
group_send(grp, c, event) ==
    [s \in Sessions |->
        IF s \in grp[c] /\ Live(s) THEN Append(chan[s], event) ELSE chan[s]]

\* The events handed to group_send for conversation c so far, with one more.
publish(pub, c, event) == [pub EXCEPT ![c] = Append(@, event)]

\* A clear_typing_indicator that deletes nothing.
clear_typing_indicator_keeps_row(typ, u, c) == typ

\* ChatConsumer.clear_typing_indicator: the row of (conversation, user) is
\* deleted, if there is one.
clear_typing_indicator(typ, u, c) == [typ EXCEPT ![<<u, c>>] = NULL]

\* ChatConsumer.set_typing_indicator: update_or_create with started_at = now.
set_typing_indicator(typ, u, c) == [typ EXCEPT ![<<u, c>>] = now]

\* Event handlers of which typing_indicator forgets to drop the events of
\* the consumer's own user.
handle_event_echoes_typing(s, event) ==
    IF event.type \in {"user_join", "user_leave"}
    THEN (IF event.user_id # sess_user[s] THEN <<event>> ELSE <<>>)
    ELSE <<event>>

\* The frame a consumer's event handler writes for an event, as a sequence of
\* zero or one frames: typing_indicator, user_join and user_leave drop the
\* events of the consumer's own user; chat_message, read_receipt and the
\* others pass everything on.
handle_event(s, event) ==
    IF event.type \in {"typing_indicator", "user_join", "user_leave"}
    THEN (IF event.user_id # sess_user[s] THEN <<event>> ELSE <<>>)
    ELSE <<event>>

\* The consumer takes the next event off its channel and runs its handler.
Deliver(s) ==
    /\ pc[s] = "open" /\ hpc[s] = "idle"
    /\ chan[s] # <<>>
    /\ sent' = [sent EXCEPT ![s] = @ \o handle_event(s, Head(chan[s]))]
    /\ chan' = [chan EXCEPT ![s] = Tail(@)]
    /\ UNCHANGED <<clockVars, presenceVars, callVars, storeVars, workerVars,
                   sessVars, groups>>
    /\ UNCHANGED auxVars

\* update_online_status(online=True), up to the statement that raises: the
\* row is read, go_online() is saved.
online_row(row) == save_online(get_or_create(row), go_online(get_or_create(row)))

\* update_online_status(online=False)
offline_row(row) == save_offline(get_or_create(row), go_offline(get_or_create(row)))

\* ChatConsumer.connect for a new connection of user u to /chat/<c>/.
\*   - not authenticated, or no active membership: close() and return;
\*   - otherwise group_add, accept(), update_online_status(online=True).  That
\*     call saves go_online() and then raises TypeError on
\*     status.update_activity(conversation_id=...): update_activity has no
\*     such parameter.  The exception leaves connect, so the group_send of
\*     user_join that follows is never reached.
Connect(s, u, c) ==
    /\ pc[s] = "new"
    /\ sess_user' = [sess_user EXCEPT ![s] = u]
    /\ sess_conv' = [sess_conv EXCEPT ![s] = c]
    /\ IF u = Anonymous \/ ~check_conversation_membership(u, c)
       THEN /\ pc' = [pc EXCEPT ![s] = "refused"]
            /\ UNCHANGED <<groups, accepted, online_status>>
       ELSE /\ groups' = [groups EXCEPT ![c] = @ \cup {s}]
            /\ accepted' = [accepted EXCEPT ![s] = TRUE]
            /\ online_status' = [online_status EXCEPT ![u] = online_row(@)]
            /\ pc' = [pc EXCEPT ![s] = "raised"]
    /\ UNCHANGED <<clockVars, callVars, storeVars, workerVars, hpc, cur_msg,
                   closes, commands, chan, sent>>
    /\ UNCHANGED auxVars

\* What becomes of a connection whose handler raised after accept() is up to
\* the server hosting the consumer.  An ASGI server ends the application
\* instance that raised and closes the socket: no websocket.disconnect is
\* dispatched, so disconnect never runs and the channel stays in the group.
HostDrops(s) ==
    /\ pc[s] = "raised"
    /\ pc' = [pc EXCEPT ![s] = "dropped"]
    /\ chan' = [chan EXCEPT ![s] = <<>>]
    /\ UNCHANGED <<clockVars, presenceVars, callVars, storeVars, workerVars,
                   sess_user, sess_conv, accepted, hpc, cur_msg, closes,
                   commands, groups, sent>>
    /\ UNCHANGED auxVars

\* The other outcome the model allows: the accepted socket goes on being
\* served (receive, the event handlers and disconnect are dispatched to the
\* consumer as on any accepted connection).  It is what lets the handlers
\* below run at all.
HostServes(s) ==
    /\ pc[s] = "raised"
    /\ pc' = [pc EXCEPT ![s] = "open"]
    /\ UNCHANGED <<clockVars, presenceVars, callVars, storeVars, workerVars,
                   sess_user, sess_conv, accepted, hpc, cur_msg, closes,
                   commands, layerVars>>
    /\ UNCHANGED auxVars

\* ChatConsumer.disconnect: dispatched when the socket closes, after a refusal
\* as well as after an accepted connection.  group_discard,
\* update_online_status(online=False), clear_typing_indicator, group_send of
\* user_leave.  For AnonymousUser the get_or_create of update_online_status
\* raises and the rest is not run.
Disconnect(s) ==
    /\ pc[s] \in {"refused", "open"} /\ hpc[s] = "idle"
    /\ LET u == sess_user[s]
           c == sess_conv[s]
           grp == [groups EXCEPT ![c] = @ \ {s}]
       IN  /\ groups' = grp
           /\ IF u = Anonymous
              THEN /\ pc' = [pc EXCEPT ![s] = "failed"]
                   /\ chan' = [chan EXCEPT ![s] = <<>>]
                   /\ UNCHANGED <<online_status, typing, closes, published>>
              ELSE /\ online_status' = [online_status EXCEPT ![u] = offline_row(@)]
                   /\ typing' = clear_typing_indicator(typing, u, c)
                   /\ chan' = [group_send(grp, c, Event("user_leave", u, {}))
                                 EXCEPT ![s] = <<>>]
                   /\ published' = publish(published, c, Event("user_leave", u, {}))
                   /\ closes' = [closes EXCEPT ![s] = @ + 1]
                   /\ pc' = [pc EXCEPT ![s] = "closed"]
    /\ UNCHANGED <<clockVars, callVars, workerVars, membership, last_read_at,
                   messages, statuses, sess_user, sess_conv, accepted, hpc,
                   cur_msg, commands, sent, reactions, can_send, last_cmd>>

\* receive() may be dispatched: the socket is open, the consumer is between
\* handlers, and the model's budget of inbound frames is not used up.
CanReceive(s) ==
    /\ pc[s] = "open" /\ hpc[s] = "idle"
    /\ commands < MaxCommands

\* The 'reply_to' values a client sends: none, or any message id.
ReplyIds == {NULL} \cup MessageIds

\* handle_chat_message, up to its first await: an empty or blank message
\* returns; otherwise create_message inserts the row with reply_to_id as
\* given.  The foreign key of reply_to rejects the id of a message that does
\* not exist: IntegrityError leaves the handler, and the consumer with it.
ReceiveChatMessage(s, content, reply_to) ==
    /\ CanReceive(s)
    /\ commands' = commands + 1
    /\ IF strip(content) = ""
       THEN UNCHANGED <<messages, hpc, cur_msg, pc>>
       ELSE IF reply_to # NULL /\ reply_to > Len(messages)
       THEN /\ pc' = [pc EXCEPT ![s] = "raised"]
            /\ UNCHANGED <<messages, hpc, cur_msg>>
       ELSE /\ Len(messages) < MaxMessages
            /\ messages' = Append(messages,
                  [conversation |-> sess_conv[s], author |-> sess_user[s],
                   content |-> content, reply_to |-> reply_to,
                   is_edited |-> FALSE, edited_at |-> NULL,
                   is_deleted |-> FALSE, deleted_at |-> NULL])
            /\ cur_msg' = [cur_msg EXCEPT ![s] = Len(messages) + 1]
            /\ hpc' = [hpc EXCEPT ![s] = "publish"]
            /\ UNCHANGED pc
    /\ last_cmd' = Cmd(s, "chat_message", NULL, content)
    /\ UNCHANGED <<clockVars, presenceVars, callVars, workerVars, membership,
                   last_read_at, statuses, typing, sess_user, sess_conv,
                   accepted, closes, layerVars, reactions, can_send, published>>

\* handle_chat_message, second await: group_send of the chat_message event.
PublishChatMessage(s) ==
    /\ pc[s] = "open" /\ hpc[s] = "publish"
    /\ chan' = group_send(groups, sess_conv[s],
                          Event("chat_message", sess_user[s], {cur_msg[s]}))
    /\ published' = publish(published, sess_conv[s],
                             Event("chat_message", sess_user[s], {cur_msg[s]}))
    /\ hpc' = [hpc EXCEPT ![s] = "statuses"]
    /\ UNCHANGED <<clockVars, presenceVars, callVars, storeVars, workerVars, pc,
                   sess_user, sess_conv, accepted, cur_msg, closes, commands,
                   groups, sent, reactions, can_send, last_cmd>>

\* handle_chat_message, third await: create_message_statuses.
CreateStatuses(s) ==
    /\ pc[s] = "open" /\ hpc[s] = "statuses"
    /\ statuses' = create_message_statuses(statuses, cur_msg[s], sess_conv[s],
                                           sess_user[s])
    /\ hpc' = [hpc EXCEPT ![s] = "idle"]
    /\ UNCHANGED <<clockVars, presenceVars, callVars, workerVars, membership,
                   last_read_at, messages, typing, pc, sess_user, sess_conv,
                   accepted, cur_msg, closes, commands, layerVars>>
    /\ UNCHANGED auxVars

\* handle_typing: set_typing_indicator (update_or_create, started_at = now) or
\* clear_typing_indicator, then group_send of typing_indicator.
ReceiveTyping(s, is_typing) ==
    /\ CanReceive(s)
    /\ commands' = commands + 1
    /\ typing' = IF is_typing
                 THEN set_typing_indicator(typing, sess_user[s], sess_conv[s])
                 ELSE clear_typing_indicator(typing, sess_user[s], sess_conv[s])
    /\ chan' = group_send(groups, sess_conv[s],
                  Event("typing_indicator", sess_user[s],
                        IF is_typing THEN {1} ELSE {}))
    /\ published' = publish(published, sess_conv[s],
                  Event("typing_indicator", sess_user[s],
                        IF is_typing THEN {1} ELSE {}))
    /\ last_cmd' = Cmd(s, "typing", NULL, "")
    /\ UNCHANGED <<clockVars, presenceVars, callVars, workerVars, membership,
                   last_read_at, messages, statuses, pc, sess_user, sess_conv,
                   accepted, hpc, cur_msg, closes, groups, sent, reactions,
                   can_send>>

\* handle_read_receipt: mark_messages_as_read, then group_send of read_receipt.
ReceiveReadReceipt(s, message_ids) ==
    /\ CanReceive(s)
    /\ commands' = commands + 1
    /\ statuses' = mark_messages_as_read(statuses, sess_user[s], message_ids)
    /\ last_read_at' = update_last_read_at(last_read_at, sess_user[s], sess_conv[s])
    /\ chan' = group_send(groups, sess_conv[s],
                          Event("read_receipt", sess_user[s], message_ids))
    /\ published' = publish(published, sess_conv[s],
                            Event("read_receipt", sess_user[s], message_ids))
    /\ last_cmd' = Cmd(s, "read_receipt", NULL, "")
    /\ UNCHANGED <<clockVars, presenceVars, callVars, workerVars, membership,
                   messages, typing, pc, sess_user, sess_conv, accepted, hpc,
                   cur_msg, closes, groups, sent, reactions, can_send>>

Init ==
    /\ now = 1
    /\ InitCalls
    /\ InitStore
    /\ st_copy = [w \in Workers |-> NoCopy]
    /\ InitSessions
    /\ InitAux

Next ==
    \/ Tick
    \/ \E s \in Sessions, u \in Users \cup {Anonymous}, c \in Convs : Connect(s, u, c)
    \/ \E s \in Sessions : HostDrops(s)
    \/ \E s \in Sessions : HostServes(s)
    \/ \E s \in Sessions : Disconnect(s)
    \/ \E s \in Sessions : Deliver(s)
    \/ \E s \in Sessions, m \in Contents, r \in ReplyIds : ReceiveChatMessage(s, m, r)
    \/ \E s \in Sessions : PublishChatMessage(s)
    \/ \E s \in Sessions : CreateStatuses(s)
    \/ \E s \in Sessions, is_typing \in BOOLEAN : ReceiveTyping(s, is_typing)
    \/ \E s \in Sessions, ids \in SUBSET MessageIds : ReceiveReadReceipt(s, ids)

Spec == Init /\ [][Next]_vars

\* ------------------------------ SpecCommands: the other frames of receive
\* The 'content' values of an edit_message frame.
EditContents == {"", " ", "yo"}

\* The 'emoji' and 'action' values of a reaction frame.
Emojis == {"+1"}
ReactionActions == {"add", "remove"}

\* The frame receive() writes to its own socket on json.JSONDecodeError.
ErrorFrame(text) ==
    [type |-> "error", user_id |-> NULL, arg |-> {}, error |-> text]

\* An edit_message lookup that forgets author=self.user.
edit_message_found_any_author(msgs, user, c, message_id) ==
    /\ message_id \in 1..Len(msgs)
    /\ msgs[message_id].conversation = c
    /\ ~msgs[message_id].is_deleted

\* ChatConsumer.edit_message: Message.objects.get(id=message_id,
\* author=self.user, conversation_id=self.conversation_id, is_deleted=False)
\* finds a row (otherwise Message.DoesNotExist, and None is returned).
edit_message_found(msgs, user, c, message_id) ==
    /\ message_id \in 1..Len(msgs)
    /\ msgs[message_id].author = user
    /\ msgs[message_id].conversation = c
    /\ ~msgs[message_id].is_deleted

\* ChatConsumer.delete_message: the same lookup without is_deleted=False.
delete_message_found(msgs, user, c, message_id) ==
    /\ message_id \in 1..Len(msgs)
    /\ msgs[message_id].author = user
    /\ msgs[message_id].conversation = c

\* Message.edit on the row found.
edit(self, new_content) ==
    [self EXCEPT !.content = new_content, !.is_edited = TRUE, !.edited_at = now]

\* A soft_delete that also blanks the content.
soft_delete_erases_content(self) ==
    [self EXCEPT !.is_deleted = TRUE, !.deleted_at = now, !.content = ""]

\* Message.soft_delete on the row found.
soft_delete(self) ==
    [self EXCEPT !.is_deleted = TRUE, !.deleted_at = now]

\* handle_edit_message: empty or blank content returns; edit_message edits
\* the row it finds and message_edited is sent to the group; when it finds
\* none nothing is sent.
ReceiveEditMessage(s, message_id, new_content) ==
    /\ CanReceive(s)
    /\ commands' = commands + 1
    /\ last_cmd' = Cmd(s, "edit_message", message_id, new_content)
    /\ LET u == sess_user[s]
           c == sess_conv[s]
           event == Event("message_edited", u, {message_id})
       IN  IF strip(new_content) # "" /\ edit_message_found(messages, u, c, message_id)
           THEN /\ messages' = [messages EXCEPT ![message_id] = edit(@, new_content)]
                /\ chan' = group_send(groups, c, event)
                /\ published' = publish(published, c, event)
           ELSE UNCHANGED <<messages, chan, published>>
    /\ UNCHANGED <<clockVars, presenceVars, callVars, workerVars, membership,
                   last_read_at, statuses, typing, pc, sess_user, sess_conv,
                   accepted, hpc, cur_msg, closes, groups, sent, reactions,
                   can_send>>

\* handle_delete_message: delete_message soft-deletes the row it finds and
\* message_deleted is sent to the group; when it finds none nothing is sent.
ReceiveDeleteMessage(s, message_id) ==
    /\ CanReceive(s)
    /\ commands' = commands + 1
    /\ last_cmd' = Cmd(s, "delete_message", message_id, "")
    /\ LET u == sess_user[s]
           c == sess_conv[s]
           event == Event("message_deleted", u, {message_id})
       IN  IF delete_message_found(messages, u, c, message_id)
           THEN /\ messages' = [messages EXCEPT ![message_id] = soft_delete(@)]
                /\ chan' = group_send(groups, c, event)
                /\ published' = publish(published, c, event)
           ELSE UNCHANGED <<messages, chan, published>>
    /\ UNCHANGED <<clockVars, presenceVars, callVars, workerVars, membership,
                   last_read_at, statuses, typing, pc, sess_user, sess_conv,
                   accepted, hpc, cur_msg, closes, groups, sent, reactions,
                   can_send>>

\* ChatConsumer.add_reaction: Reaction.objects.get_or_create.
add_reaction(rs, message_id, u, emoji) == rs \cup {<<message_id, u, emoji>>}

\* ChatConsumer.remove_reaction: Reaction.objects.filter(...).delete().
remove_reaction(rs, message_id, u, emoji) == rs \ {<<message_id, u, emoji>>}

\* handle_reaction: add_reaction or remove_reaction, then message_reaction is
\* sent to the group, whatever the database call did.  add_reaction for the
\* id of no message violates the foreign key of Reaction.message:
\* IntegrityError leaves the handler, and the consumer with it.
ReceiveReaction(s, message_id, emoji, action) ==
    /\ CanReceive(s)
    /\ commands' = commands + 1
    /\ last_cmd' = Cmd(s, "reaction", message_id, "")
    /\ LET u == sess_user[s]
           c == sess_conv[s]
           event == Event("message_reaction", u, {message_id})
       IN  IF action = "add" /\ message_id \notin 1..Len(messages)
           THEN /\ pc' = [pc EXCEPT ![s] = "raised"]
                /\ UNCHANGED <<reactions, chan, published>>
           ELSE /\ reactions' = IF action = "add"
                                THEN add_reaction(reactions, message_id, u, emoji)
                                ELSE remove_reaction(reactions, message_id, u, emoji)
                /\ chan' = group_send(groups, c, event)
                /\ published' = publish(published, c, event)
                /\ UNCHANGED pc
    /\ UNCHANGED <<clockVars, presenceVars, callVars, workerVars, storeVars,
                   sess_user, sess_conv, accepted, hpc, cur_msg, closes, groups,
                   sent, can_send>>

\* receive() for a JSON object whose 'type' is missing or is none of the six
\* the if / elif chain names: no branch is taken, nothing is done.
ReceiveUnknownType(s) ==
    /\ CanReceive(s)
    /\ commands' = commands + 1
    /\ last_cmd' = Cmd(s, "unknown", NULL, "")
    /\ UNCHANGED <<clockVars, presenceVars, callVars, workerVars, storeVars, pc,
                   sess_user, sess_conv, accepted, hpc, cur_msg, closes,
                   layerVars, reactions, can_send, published>>

\* receive() for text that json.loads rejects: the except branch sends
\* {'error': 'Invalid JSON'} to this socket.
ReceiveInvalidJson(s) ==
    /\ CanReceive(s)
    /\ commands' = commands + 1
    /\ last_cmd' = Cmd(s, "invalid_json", NULL, "")
    /\ sent' = [sent EXCEPT ![s] = Append(@, ErrorFrame("Invalid JSON"))]
    /\ UNCHANGED <<clockVars, presenceVars, callVars, workerVars, storeVars, pc,
                   sess_user, sess_conv, accepted, hpc, cur_msg, closes, groups,
                   chan, reactions, can_send, published>>

\* receive() for JSON that is not an object (a list, a number, a string,
\* null): json.loads succeeds and data.get raises AttributeError, which the
\* except json.JSONDecodeError does not catch.
ReceiveNonObject(s) ==
    /\ CanReceive(s)
    /\ commands' = commands + 1
    /\ last_cmd' = Cmd(s, "non_object", NULL, "")
    /\ pc' = [pc EXCEPT ![s] = "raised"]
    /\ UNCHANGED <<clockVars, presenceVars, callVars, workerVars, storeVars,
                   sess_user, sess_conv, accepted, hpc, cur_msg, closes,
                   layerVars, reactions, can_send, published>>

NextCommands ==
    \/ \E s \in Sessions, u \in Users \cup {Anonymous}, c \in Convs : Connect(s, u, c)
    \/ \E s \in Sessions : HostDrops(s)
    \/ \E s \in Sessions : HostServes(s)
    \/ \E s \in Sessions : Disconnect(s)
    \/ \E s \in Sessions : Deliver(s)
    \/ \E s \in Sessions, m \in Contents, r \in ReplyIds : ReceiveChatMessage(s, m, r)
    \/ \E s \in Sessions : PublishChatMessage(s)
    \/ \E s \in Sessions : CreateStatuses(s)
    \/ \E s \in Sessions, m \in MessageIds, t \in EditContents : ReceiveEditMessage(s, m, t)
    \/ \E s \in Sessions, m \in MessageIds : ReceiveDeleteMessage(s, m)
    \/ \E s \in Sessions, m \in MessageIds, e \in Emojis, a \in ReactionActions : ReceiveReaction(s, m, e, a)
    \/ \E s \in Sessions : ReceiveUnknownType(s)
    \/ \E s \in Sessions : ReceiveInvalidJson(s)
    \/ \E s \in Sessions : ReceiveNonObject(s)
    \/ \E s \in Sessions, ids \in SUBSET MessageIds : ReceiveReadReceipt(s, ids)

SpecCommands == Init /\ [][NextCommands]_vars

\* ------------------------------- SpecMembers: memberships that change
\* User u has a session on conversation c that is being served.
Connected(u, c) ==
    \E s \in Sessions : pc[s] = "open" /\ sess_user[s] = u /\ sess_conv[s] = c

\* The admin site (UserConversationAdmin) edits left_at and
\* can_send_messages of a membership row while its user is connected.
AdminSetsLeftAt(u, c) ==
    /\ Connected(u, c)
    /\ membership[u, c] = "active"
    /\ membership' = [membership EXCEPT ![u, c] = "left"]
    /\ UNCHANGED <<clockVars, presenceVars, callVars, workerVars, last_read_at,
                   messages, statuses, typing, sessVars, layerVars, reactions,
                   can_send, last_cmd, published>>

AdminRevokesSend(u, c) ==
    /\ Connected(u, c)
    /\ membership[u, c] # "none"
    /\ can_send[u, c]
    /\ can_send' = [can_send EXCEPT ![u, c] = FALSE]
    /\ UNCHANGED <<clockVars, presenceVars, callVars, workerVars, storeVars,
                   sessVars, layerVars, reactions, last_cmd, published>>

NextMembers ==
    \/ \E s \in Sessions, u \in Users \cup {Anonymous}, c \in Convs : Connect(s, u, c)
    \/ \E s \in Sessions : HostDrops(s)
    \/ \E s \in Sessions : HostServes(s)
    \/ \E s \in Sessions : Disconnect(s)
    \/ \E u \in Users, c \in Convs : AdminSetsLeftAt(u, c)
    \/ \E u \in Users, c \in Convs : AdminRevokesSend(u, c)
    \/ \E s \in Sessions, m \in Contents, r \in ReplyIds : ReceiveChatMessage(s, m, r)
    \/ \E s \in Sessions : PublishChatMessage(s)
    \/ \E s \in Sessions : CreateStatuses(s)

SpecMembers == Init /\ [][NextMembers]_vars

\* ------------------------- SpecMessages: edits and deletes of stored rows
\* Sessions that edit and delete the messages handle_chat_message stored
\* earlier (the rows of InitStatus), while time passes.
NextMessages ==
    \/ Tick
    \/ \E s \in Sessions, u \in Users \cup {Anonymous}, c \in Convs : Connect(s, u, c)
    \/ \E s \in Sessions : HostDrops(s)
    \/ \E s \in Sessions : HostServes(s)
    \/ \E s \in Sessions : Disconnect(s)
    \/ \E s \in Sessions : Deliver(s)
    \/ \E s \in Sessions, m \in MessageIds, t \in EditContents : ReceiveEditMessage(s, m, t)
    \/ \E s \in Sessions, m \in MessageIds : ReceiveDeleteMessage(s, m)

SpecMessages == InitStatus /\ [][NextMessages]_vars

\* ------------------------------ SpecExpiry: TypingIndicator.is_expired
\* In this specification the clock counts seconds.
\* timedelta.seconds is the seconds component of a difference, the days
\* being a component of their own: for a difference that is not negative,
\* the whole seconds modulo the seconds of a day.
DaySeconds == 86400

seconds(delta) == delta % DaySeconds

\* The default of is_expired's timeout_seconds.
TypingTimeout == 5

\* TypingIndicator.is_expired(timeout_seconds) for a row started at
\* started_at.
is_expired(started_at, timeout_seconds) ==
    seconds(now - started_at) > timeout_seconds

\* The lengths of time that pass between two looks at the clock.
Durations == {1, TypingTimeout, DaySeconds}

\* d seconds pass; the clock is followed for MaxDays days and, within
\* each day, up to its second MaxSecondOfDay.
Wait(d) ==
    /\ (now + d) \div DaySeconds <= MaxDays
    /\ (now + d) % DaySeconds <= MaxSecondOfDay
    /\ now' = now + d
    /\ UNCHANGED <<presenceVars, callVars, storeVars, workerVars, sessVars,
                   layerVars, auxVars>>

\* set_typing_indicator for a member of conversation 1: the row of
\* (conversation, user) gets started_at = now.
TypingStarts(u) ==
    /\ check_conversation_membership(u, 1)
    /\ typing' = set_typing_indicator(typing, u, 1)
    /\ UNCHANGED <<clockVars, presenceVars, callVars, workerVars, membership,
                   last_read_at, messages, statuses, sessVars, layerVars,
                   auxVars>>

NextExpiry ==
    \/ \E d \in Durations : Wait(d)
    \/ \E u \in Users : TypingStarts(u)

SpecExpiry == Init /\ [][NextExpiry]_vars

\* ================================================================ claims

\* ------------------------------------------------------------ presence
NumDone(kind) ==
    Cardinality({k \in Calls : call_pc[k] = "done" /\ call_kind[k] = kind})

\* No update_online_status call is between its read and its save.
Quiescent == \A k \in Calls : call_pc[k] # "loaded"

\* C2: whenever every GoOnline / GoOffline call made so far has returned, the
\* stored connection_count is (#GoOnline - #GoOffline) clamped at 0 and
\* is_online is (connection_count > 0), whatever the interleaving was.
C2_FinalCount ==
    Quiescent =>
        LET row == online_status[PresenceUser]
        IN  /\ row.connection_count =
                 Max(0, NumDone("online") - NumDone("offline"))
            /\ row.is_online = (row.connection_count > 0)

\* A GoOffline call that has read the row and is about to take the count from
\* one to zero: it will set is_online false and last_seen_at.
ObservesReachedZero(k) ==
    /\ call_kind[k] = "offline"
    /\ call_pc[k] = "loaded"
    /\ call_copy[k].connection_count = 1

\* C3: connection_count is never negative, and no two concurrent GoOffline
\* calls both observe the count reaching zero (one offline transition per
\* drain).
C3_OneOfflineTransition ==
    /\ online_status[PresenceUser].connection_count >= 0
    /\ \A k1, k2 \in Calls :
          k1 # k2 => ~(ObservesReachedZero(k1) /\ ObservesReachedZero(k2))

\* C4: every stored OnlineStatus row has connection_count >= 0 and is_online
\* exactly when connection_count > 0, in every state that interleaved
\* go_online, go_offline and update_activity calls reach.
C4_PresenceInvariant ==
    \A u \in Users :
        /\ online_status[u].connection_count >= 0
        /\ online_status[u].is_online <=> (online_status[u].connection_count > 0)

\* C4's case: calls of all three kinds have saved, one of them a go_offline
\* that took its copy to zero, and the row is online again.
C4_Witness ==
    /\ \E k \in Calls : /\ call_pc[k] = "done" /\ call_kind[k] = "offline"
                        /\ call_copy[k].connection_count = 0
    /\ \E k \in Calls : call_pc[k] = "done" /\ call_kind[k] = "activity"
    /\ online_status[PresenceUser].is_online
    /\ online_status[PresenceUser].connection_count > 0

\* ------------------------------------------------------ delivery status
\* C7: the stored status of a MessageStatus row never moves backwards along
\* sent, delivered, read, whichever of mark_delivered, mark_read and
\* mark_messages_as_read runs, loaded copies included.
C7_StatusMonotonic ==
    [][\A key \in MessageIds \X Users :
          Rank(statuses'[key].status) >= Rank(statuses[key].status)]_vars

\* C8: a read_receipt (mark_messages_as_read) leaves every row that already
\* has status read as it is: status read, read_at that of the first
\* transition.
C8_MarkReadIdempotent ==
    [][\A u \in Users, c \in Convs, ids \in SUBSET MessageIds :
          MarkRead(u, c, ids) =>
              \A key \in MessageIds \X Users :
                  statuses[key].status = "read" => statuses'[key] = statuses[key]]_vars

\* ------------------------------------------------------------ sessions
\* The events in a sequence of events.
Range(seq) == {seq[i] : i \in 1..Len(seq)}

\* C1: a connection of an authenticated user without an active membership in
\* the conversation is refused: it is never accepted, its channel is never in
\* the conversation's group, and no event reaches its channel or its socket.
C1_NonMemberRefused ==
    \A s \in Sessions :
        (/\ pc[s] # "new"
         /\ sess_user[s] \in Users
         /\ membership[sess_user[s], sess_conv[s]] # "active")
        => /\ pc[s] \in {"refused", "closed"}
           /\ ~accepted[s]
           /\ s \notin groups[sess_conv[s]]
           /\ chan[s] = <<>>
           /\ sent[s] = <<>>

\* C1's case: a user who left the conversation has tried to connect, and
\* another session of that conversation has since been sent an event.
C1_Witness ==
    \E s, s2 \in Sessions :
        /\ sess_user[s] \in Users
        /\ pc[s] \in {"refused", "closed"}
        /\ membership[sess_user[s], sess_conv[s]] = "left"
        /\ pc[s2] = "open" /\ sess_conv[s2] = sess_conv[s]
        /\ sent[s2] # <<>>

\* C5: whenever a recipient's socket has been sent the chat_message event of
\* message m, the MessageStatus row for (m, recipient) exists, so that a
\* read_receipt sent at once finds it.
C5_StatusRowsBeforeBroadcast ==
    \A s \in Sessions : \A e \in Range(sent[s]) :
        (e.type = "chat_message" /\ e.user_id # sess_user[s])
        => \A m \in e.arg : statuses[<<m, sess_user[s]>>].status # "none"

\* C6: the step that ends the handling of a chat_message leaves, for the new
\* message, exactly one row with status sent for each active member of the
\* conversation other than the author, and no row for anyone else.
C6_StatusesAfterChatMessage ==
    [][\A s \in Sessions :
          (hpc[s] = "statuses" /\ hpc'[s] = "idle") =>
              \A u \in Users :
                  statuses'[<<cur_msg[s], u>>] =
                      IF membership[u, sess_conv[s]] = "active" /\ u # sess_user[s]
                      THEN StatusSent
                      ELSE StatusAbsent]_vars

\* C6's case: a message of conversation 1 has been handled to the end; the
\* other active member has a row, the author and the member who left do not.
C6_Witness ==
    \E m \in 1..Len(messages) :
        /\ messages[m].conversation = 1
        /\ \A s \in Sessions : hpc[s] = "idle"
        /\ \E u \in Users : statuses[<<m, u>>].status = "sent"
        /\ statuses[<<m, messages[m].author>>].status = "none"
        /\ \E u \in Users : /\ membership[u, 1] = "left"
                            /\ statuses[<<m, u>>].status = "none"

\* C9: the connect that accepts session s subscribes s to the conversation's
\* group, marks the user online with connection_count one higher, and puts a
\* user_join event for the user on the channel of every other session that is
\* subscribed and open.
C9_OpenAnnouncesJoin ==
    [][\A s \in Sessions :
          (pc[s] = "new" /\ accepted'[s]) =>
              LET u == sess_user'[s]
                  c == sess_conv'[s]
              IN  /\ s \in groups'[c]
                  /\ online_status'[u].is_online
                  /\ online_status'[u].connection_count =
                         online_status[u].connection_count + 1
                  /\ \A s2 \in groups[c] \ {s} :
                        pc[s2] = "open" =>
                            Event("user_join", u, {}) \in Range(chan'[s2])]_vars

\* C10: a session that was accepted and whose connection is over has run the
\* Close sequence exactly once and is out of the conversation's group.
C10_CloseRunsOnce ==
    \A s \in Sessions :
        (accepted[s] /\ pc[s] \in {"closed", "dropped", "failed"})
        => /\ closes[s] = 1
           /\ s \notin groups[sess_conv[s]]

\* C11: a refused connect puts no event on the channel of any open session: not
\* the connect that refuses (close() before accept()), and not the disconnect
\* that is dispatched for the refused connection.
C11_RefusedOpenSilent ==
    [][\A s \in Sessions :
          ((pc[s] = "new" /\ pc'[s] = "refused") \/
           (pc[s] = "refused" /\ pc'[s] # "refused"))
          => \A s2 \in Sessions \ {s} :
                pc[s2] = "open" => chan'[s2] = chan[s2]]_vars

\* C12: no session's socket is ever sent a typing event of its own user; the
\* group_send of a chat_message event queues it for every open session of the
\* conversation's group, the author's session among them; and a session that
\* handles a chat_message event writes it to its socket, whoever the author.
C12_SelfEcho ==
    [][/\ \A s \in Sessions : \A e \in Range(sent'[s]) :
              e.type = "typing_indicator" => e.user_id # sess_user'[s]
       /\ \A s \in Sessions :
              (hpc[s] = "publish" /\ hpc'[s] = "statuses") =>
                  /\ s \in groups[sess_conv[s]]
                  /\ \A s2 \in groups[sess_conv[s]] :
                        pc[s2] = "open" =>
                            chan'[s2] = Append(chan[s2],
                                Event("chat_message", sess_user[s], {cur_msg[s]}))
       /\ \A s \in Sessions :
              (/\ pc[s] = "open" /\ pc'[s] = "open"
               /\ chan[s] # <<>> /\ chan'[s] = Tail(chan[s])
               /\ Head(chan[s]).type = "chat_message")
              => sent'[s] = Append(sent[s], Head(chan[s]))]_vars

\* C12's case: a session has typed and has sent a message; it has handled
\* both events, and its socket got the chat_message and not the typing event.
C12_Witness ==
    \E s \in Sessions :
        /\ pc[s] = "open" /\ chan[s] = <<>>
        /\ \E e \in Range(published[sess_conv[s]]) :
              e.type = "typing_indicator" /\ e.user_id = sess_user[s]
        /\ \E e \in Range(sent[s]) :
              e.type = "chat_message" /\ e.user_id = sess_user[s]
        /\ \A e \in Range(sent[s]) : e.type # "typing_indicator"

\* The last element of a non-empty sequence.
Last(seq) == seq[Len(seq)]

\* C13: a reaction, edit_message, delete_message or read_receipt command
\* whose change to the rows took place hands exactly one event to group_send,
\* which queues it once for every open session of the conversation's group;
\* a command whose change did not take place hands over none.
C13_OneEventPerMutation ==
    [][\A s \in Sessions :
          (/\ commands' # commands /\ last_cmd'.session = s
           /\ last_cmd'.type \in {"reaction", "edit_message", "delete_message",
                                   "read_receipt"})
          => LET c == sess_conv[s]
                 u == sess_user[s]
                 id == last_cmd'.message_id
                 mutated ==
                     CASE last_cmd'.type = "reaction" -> reactions' # reactions
                       [] last_cmd'.type = "edit_message" ->
                              /\ strip(last_cmd'.content) # ""
                              /\ edit_message_found(messages, u, c, id)
                       [] last_cmd'.type = "delete_message" ->
                              delete_message_found(messages, u, c, id)
                       [] last_cmd'.type = "read_receipt" -> membership[u, c] # "none"
             IN  IF mutated
                 THEN /\ Len(published'[c]) = Len(published[c]) + 1
                      /\ \A s2 \in groups[c] :
                            pc[s2] = "open" =>
                                chan'[s2] = Append(chan[s2], Last(published'[c]))
                 ELSE /\ published' = published
                      /\ chan' = chan]_vars

\* The message an edit_message / delete_message frame names exists and is
\* not the session's to change: another user wrote it, or it belongs to
\* another conversation than the session's.
ForeignMessage(s, id) ==
    /\ id \in 1..Len(messages)
    /\ \/ messages[id].author # sess_user[s]
       \/ messages[id].conversation # sess_conv[s]

\* C14: an edit_message or delete_message command for a message of another
\* author or of another conversation leaves every message row as it is and
\* hands no event to group_send.
C14_ForeignMessageUntouched ==
    [][\A s \in Sessions :
          (/\ commands' # commands /\ last_cmd'.session = s
           /\ last_cmd'.type \in {"edit_message", "delete_message"}
           /\ ForeignMessage(s, last_cmd'.message_id))
          => /\ messages' = messages
             /\ published' = published
             /\ chan' = chan]_vars

\* C14's case: the last frame was an edit_message with content, sent by an
\* open session for a message that exists, is not deleted, is in the
\* session's conversation and was written by another user.
C14_Witness ==
    /\ last_cmd.type = "edit_message" /\ last_cmd.content = "yo"
    /\ last_cmd.message_id \in 1..Len(messages)
    /\ LET m == messages[last_cmd.message_id]
           s == last_cmd.session
       IN  /\ pc[s] = "open"
           /\ m.author # sess_user[s]
           /\ m.conversation = sess_conv[s]
           /\ ~m.is_deleted /\ ~m.is_edited

\* C15: when disconnect has run to its end for a session of user A on
\* conversation C, there is no TypingIndicator row for (C, A).
C15_CloseClearsTyping ==
    [][\A s \in Sessions :
          closes'[s] # closes[s] =>
              typing'[<<sess_user[s], sess_conv[s]>>] = NULL]_vars

\* C15's case: an accepted session whose user sent is_typing true and never
\* is_typing false has been closed, and the row is gone.
C15_Witness ==
    \E s \in Sessions :
        /\ accepted[s] /\ pc[s] = "closed"
        /\ LET u == sess_user[s]
               c == sess_conv[s]
           IN  /\ Event("typing_indicator", u, {1}) \in Range(published[c])
               /\ Event("typing_indicator", u, {}) \notin Range(published[c])
               /\ typing[<<u, c>>] = NULL

\* C16: a frame whose type is missing or unknown changes no stored row,
\* makes the consumer send one error frame to its own socket, and puts
\* nothing on any channel.
C16_UnknownTypeGetsError ==
    [][\A s \in Sessions :
          (/\ commands' # commands /\ last_cmd'.session = s
           /\ last_cmd'.type = "unknown")
          => /\ UNCHANGED <<storeVars, reactions, can_send, presenceVars>>
             /\ chan' = chan /\ published' = published
             /\ Len(sent'[s]) = Len(sent[s]) + 1
             /\ Last(sent'[s]).type = "error"
             /\ \A s2 \in Sessions \ {s} : sent'[s2] = sent[s2]]_vars

\* C17: a frame that is not the JSON object of a command (text json.loads
\* rejects, or JSON that is not an object) makes the consumer send
\* {"error": "Invalid payload"} to its own socket and to no other, changes no
\* stored row, and leaves the session open.
C17_InvalidPayloadError ==
    [][\A s \in Sessions :
          (/\ commands' # commands /\ last_cmd'.session = s
           /\ last_cmd'.type \in {"invalid_json", "non_object"})
          => /\ sent'[s] = Append(sent[s], ErrorFrame("Invalid payload"))
             /\ \A s2 \in Sessions \ {s} : sent'[s2] = sent[s2]
             /\ chan' = chan /\ published' = published
             /\ UNCHANGED <<storeVars, reactions, can_send, presenceVars>>
             /\ pc'[s] = "open"]_vars

\* The 'message' / 'content' values that are empty or whitespace only.
Blank == {"", " "}

\* C18: a chat_message whose message, or an edit_message whose content, is
\* empty or whitespace only does nothing: no message row is created or
\* changed, no status row is created, nothing is handed to group_send or put
\* on a channel, no frame is written to any socket, and the handler is over.
C18_BlankIsNoOp ==
    [][\A s \in Sessions :
          (/\ commands' # commands /\ last_cmd'.session = s
           /\ last_cmd'.type \in {"chat_message", "edit_message"}
           /\ last_cmd'.content \in Blank)
          => /\ messages' = messages /\ statuses' = statuses
             /\ published' = published /\ chan' = chan /\ sent' = sent
             /\ pc' = pc /\ hpc' = hpc]_vars

\* C18's case: the last frame was an edit_message with whitespace for
\* content, for a message its sender could have edited.
C18_Witness ==
    /\ last_cmd.type = "edit_message" /\ last_cmd.content = " "
    /\ edit_message_found(messages, sess_user[last_cmd.session],
                          sess_conv[last_cmd.session], last_cmd.message_id)
    /\ ~messages[last_cmd.message_id].is_edited

\* C19: create_message inserts a row only for an author whose membership in
\* the conversation is active (left_at null) and has can_send_messages true
\* at that moment.
C19_SendNeedsPermission ==
    [][\A s \in Sessions :
          (Len(messages') > Len(messages) /\ last_cmd'.session = s)
          => /\ membership[sess_user[s], sess_conv[s]] = "active"
             /\ can_send[sess_user[s], sess_conv[s]]]_vars

\* a can be obtained from b by leaving elements out: the elements of a occur
\* in b in the same order.
RECURSIVE IsSubseq(_, _)
IsSubseq(a, b) ==
    IF a = <<>> THEN TRUE
    ELSE IF b = <<>> THEN FALSE
    ELSE IF Head(a) = Head(b) THEN IsSubseq(Tail(a), Tail(b))
    ELSE IsSubseq(a, Tail(b))

\* The events a consumer forwarded to its socket (the error frames it wrote
\* itself left out), followed by the events still queued on its channel.
Received(s) == SelectSeq(sent[s], LAMBDA e : e.type # "error") \o chan[s]

C21_SoftDeleteKeepsRow ==
    [][/\ Len(messages') >= Len(messages)
       /\ \A s \in Sessions :
              (/\ commands' # commands /\ last_cmd'.session = s
               /\ last_cmd'.type = "delete_message")
              => LET id == last_cmd'.message_id
                 IN  /\ \A i \in 1..Len(messages) :
                           messages'[i].content = messages[i].content
                     /\ delete_message_found(messages, sess_user[s], sess_conv[s], id)
                        => /\ messages'[id].is_deleted
                           /\ messages'[id].deleted_at # NULL]_vars

\* C21's case: a message that was edited and then deleted by its author is
\* stored with the edited content.
C21_Witness ==
    /\ last_cmd.type = "delete_message"
    /\ \E i \in 1..Len(messages) :
          /\ i = last_cmd.message_id
          /\ messages[i].is_deleted /\ messages[i].deleted_at # NULL
          /\ messages[i].is_edited /\ messages[i].content = "yo"

\* C22: an edit_message or delete_message command for a message that is
\* already deleted changes no field of any message row and hands no event to
\* group_send, whoever sends it.
C22_DeletedIsTerminal ==
    [][\A s \in Sessions :
          (/\ commands' # commands /\ last_cmd'.session = s
           /\ last_cmd'.type \in {"edit_message", "delete_message"}
           /\ last_cmd'.message_id \in 1..Len(messages)
           /\ messages[last_cmd'.message_id].is_deleted)
          => /\ messages' = messages
             /\ published' = published
             /\ chan' = chan]_vars

\* C23: an edit_message (with content) or delete_message command that finds
\* no message it may change (no such id, another author's or another
\* conversation's message, or a deleted one) makes the consumer send one
\* error frame to its own socket.
C23_NotFoundGetsError ==
    [][\A s \in Sessions :
          (/\ commands' # commands /\ last_cmd'.session = s
           /\ \/ last_cmd'.type = "delete_message"
              \/ last_cmd'.type = "edit_message" /\ last_cmd'.content \notin Blank
           /\ ~edit_message_found(messages, sess_user[s], sess_conv[s],
                                   last_cmd'.message_id))
          => /\ Len(sent'[s]) = Len(sent[s]) + 1
             /\ Last(sent'[s]).type = "error"]_vars

\* Message id names no message of conversation c.
NotInConversation(id, c) ==
    id \notin 1..Len(messages) \/ messages[id].conversation # c

\* C24: a read_receipt naming a message that does not exist, is not of the
\* session's conversation or has no status row for the sender, and a reaction
\* naming a message that does not exist or is not of the session's
\* conversation, put no event on the channel of any other open session.
C24_FailuresStayLocal ==
    [][\A s \in Sessions :
          LET u == sess_user[s]
              c == sess_conv[s]
          IN  (\/ \E ids \in SUBSET MessageIds :
                     /\ ReceiveReadReceipt(s, ids)
                     /\ \E m \in ids : \/ NotInConversation(m, c)
                                        \/ statuses[<<m, u>>].status = "none"
               \/ /\ commands' # commands /\ last_cmd'.session = s
                  /\ last_cmd'.type = "reaction"
                  /\ NotInConversation(last_cmd'.message_id, c))
              => \A s2 \in Sessions \ {s} :
                    pc[s2] = "open" => chan'[s2] = chan[s2]]_vars

\* ------------------------------------------------------ memberships
\* C25: when a session publishes a chat_message event, the event is not put
\* on the channel of an open session of another user whose membership in
\* the conversation is no longer active.
C25_InactiveExcludedFromFanout ==
    [][\A s, s2 \in Sessions :
          (/\ hpc[s2] = "publish" /\ hpc'[s2] = "statuses"
           /\ pc[s] = "open"
           /\ sess_conv[s] = sess_conv[s2]
           /\ sess_user[s] # sess_user[s2]
           /\ membership[sess_user[s], sess_conv[s]] # "active")
          => chan'[s] = chan[s]]_vars

\* ------------------------------------------------------ presence rows
\* C26: the stored last_seen_at of a user changes only in a step that takes
\* the stored connection_count from a positive value to zero.
C26_LastSeenOnlyOnDrain ==
    [][\A u \in Users :
          online_status'[u].last_seen_at # online_status[u].last_seen_at
          => /\ online_status[u].connection_count > 0
             /\ online_status'[u].connection_count = 0]_vars

\* ------------------------------------------------------ typing rows
\* C27: is_expired with the default timeout is true exactly when more
\* whole seconds than the timeout have passed since started_at, however
\* many.
C27_ExpiredIffElapsed ==
    \A key \in DOMAIN typing :
        typing[key] # NULL =>
            (is_expired(typing[key], TypingTimeout)
                <=> (now - typing[key] > TypingTimeout))

\* ------------------------------------------------- refused connections
\* C28: the disconnect handling that follows a refused connection attempt
\* changes nobody's presence row: connection_count, is_online and
\* last_seen_at stay as they were.
C28_RefusalLeavesPresence ==
    [][\A s \in Sessions :
          (pc[s] = "refused" /\ pc'[s] # "refused")
          => online_status' = online_status]_vars

\* ------------------------------------------------ order of chat_message
\* C29: every session gets the chat_message events of its conversation in
\* the order in which the messages were created (message ids are given
\* out in creation order), whichever sessions created them.
C29_DeliveredInCreationOrder ==
    \A s \in Sessions :
        \A i, j \in 1..Len(Received(s)) :
            (/\ i < j
             /\ Received(s)[i].type = "chat_message"
             /\ Received(s)[j].type = "chat_message")
            => \A a \in Received(s)[i].arg, b \in Received(s)[j].arg : a < b

\* -------------------------------------------- typing with two sessions
\* C30: user u has two open sessions s1 and s2 on one conversation, and
\* the last frame handled was s1's typing with is_typing true.  When s2
\* then closes, or sends typing with is_typing false, the TypingIndicator
\* row of (conversation, u) is still there.
C30_TypingOwnedBySession ==
    [][\A s1, s2 \in Sessions :
          (/\ s1 # s2
           /\ pc[s1] = "open" /\ pc[s2] = "open"
           /\ sess_user[s1] = sess_user[s2]
           /\ sess_conv[s1] = sess_conv[s2]
           /\ last_cmd.session = s1 /\ last_cmd.type = "typing"
           /\ published[sess_conv[s1]] # <<>>
           /\ Last(published[sess_conv[s1]])
                 = Event("typing_indicator", sess_user[s1], {1})
           /\ pc'[s1] = "open"
           /\ \/ closes'[s2] # closes[s2]
              \/ /\ last_cmd'.session = s2 /\ last_cmd'.type = "typing"
                 /\ Last(published'[sess_conv[s1]])
                       = Event("typing_indicator", sess_user[s1], {}))
          => typing'[<<sess_user[s1], sess_conv[s1]>>] # NULL]_vars

\* ------------------------------------------------ frame of read_receipt
\* C31: a read_receipt frame handled by a session of user u on
\* conversation c changes only MessageStatus rows of u for messages of c,
\* and only the last_read_at of u's membership in c.
C31_ReadReceiptFrame ==
    [][\A s \in Sessions :
          (/\ commands' # commands
           /\ last_cmd'.type = "read_receipt"
           /\ last_cmd'.session = s)
          => /\ \A key \in DOMAIN statuses :
                   statuses'[key] # statuses[key]
                   => /\ key[2] = sess_user[s]
                      /\ messages[key[1]].conversation = sess_conv[s]
             /\ \A key \in DOMAIN last_read_at :
                   last_read_at'[key] # last_read_at[key]
                   => key = <<sess_user[s], sess_conv[s]>>]_vars

\* ------------------------------------------------------ reply_to links
\* C32: every stored message with a reply_to names a stored message of
\* its own conversation.
C32_ReplyWithinConversation ==
    \A i \in 1..Len(messages) :
        messages[i].reply_to # NULL
        => /\ messages[i].reply_to \in 1..Len(messages)
           /\ messages[messages[i].reply_to].conversation
                 = messages[i].conversation

====
